---- MODULE Spec2Model ----
(***************************************************************************)
(* Contract analysis bots (Telegram, WhatsApp webhook, Streamlit page).    *)
(* Texts are TLA+ strings, one character per unit, so Len, \o and SubSeq   *)
(* are Python's len, + and slicing.  An optional value (a Python name not  *)
(* yet bound, or None) is the empty tuple, and <<v>> once it holds v.      *)
(***************************************************************************)
EXTENDS Integers, Sequences, FiniteSets, TLC

\* ------------------------------------------------------------ bounds
\* longest document, in chunks of chunk_size
MaxChunks == 2
\* longest report, in segments of segment_size
MaxSegments == 2

\* ------------------------------------------------------------ constants
chunk_size == 2000
segment_size == 4000

\* ------------------------------------------------------------ Python helpers
None == <<>>
Some(v) == <<v>>

Min(a, b) == IF a < b THEN a ELSE b

\* s[i:j] for 0 <= i <= j
Slice(s, i, j) == SubSeq(s, i + 1, Min(j, Len(s)))

\* list(range(0, stop, step)) for step > 0
Range0(stop, step) ==
  [k \in 1..((stop + step - 1) \div step) |-> (k - 1) * step]

\* sep.join(parts)
RECURSIVE Join(_, _)
Join(sep, parts) ==
  IF parts = <<>> THEN ""
  ELSE IF Len(parts) = 1 THEN parts[1]
  ELSE parts[1] \o sep \o Join(sep, Tail(parts))

IsSpace(c) == c \in {" ", "\n", "\t", "\r"}

\* s.lstrip()
RECURSIVE LStrip(_)
LStrip(s) ==
  IF s = "" THEN ""
  ELSE IF IsSpace(SubSeq(s, 1, 1)) THEN LStrip(SubSeq(s, 2, Len(s)))
  ELSE s

\* s.rstrip()
RECURSIVE RStrip(_)
RStrip(s) ==
  IF s = "" THEN ""
  ELSE IF IsSpace(SubSeq(s, Len(s), Len(s))) THEN RStrip(SubSeq(s, 1, Len(s) - 1))
  ELSE s

\* s.strip()
Strip(s) == RStrip(LStrip(s))

\* ------------------------------------------------------------ inputs
\* n repetitions of s
RECURSIVE Rep(_, _)
Rep(s, n) ==
  IF n = 0 THEN ""
  ELSE IF n % 2 = 1 THEN s \o Rep(s, n - 1)
  ELSE LET h == Rep(s, n \div 2) IN h \o h

\* a text of exactly n characters built from the pattern u
TextOf(u, n) == SubSeq(Rep(u, n \div Len(u) + 1), 1, n)

ClauseText(n) == TextOf("1. Term. This Agreement is perpetual.\n", n)
ReportText(n) == TextOf("## Findings\n- item;", n)

BoundaryLengths(unit, max) ==
  {k * unit + d : k \in 1..max, d \in {-1, 0, 1}}

\* what PDFReader.read returns: the list of the pages' contents
PdfPages ==
  {<<>>, <<"">>, <<" ", "\n">>, <<"\t">>, <<"a">>, <<" a", "b ">>}
  \cup {<<ClauseText(n)>> : n \in BoundaryLengths(chunk_size, MaxChunks)}
  \cup {<<ClauseText(chunk_size - 1), ClauseText(chunk_size)>>}

\* what str(e) can be for an exception raised by a collaborator
Causes == {"timeout", "quota exceeded"}

StructureOutputs ==
  {"- Section 2 is missing", "# Outline\n1. Term",
   "1. Term\n  - no end date"}
LegalOutputs ==
  {"Risk: \"This Agreement is perpetual.\" (Section 1)", "No risk found"}
NegotiationOutputs ==
  {"Negotiable: \"Neither party shall be liable.\" -> cap liability"}

\* what a consolidation or team run can return as result.content
LongReports ==
  {ReportText(n) : n \in BoundaryLengths(segment_size, MaxSegments)}


\* Team.arun / the consolidation pass is free in what it returns
ShortReports == {"", "Merged report: the term clause should be reviewed."}

\* ------------------------------------------------------------ names
StructureAgent == "Contract Structure Agent"
LegalAgent == "Legal Framework Agent"
NegotiationAgent == "Negotiation Agent"
TeamManager == "Team Manager"

\* ------------------------------------------------------------ state
VARIABLES
  channel,             \* which front end handles the document
  pc,                  \* position of the handler
  all_content,         \* the extracted text, once bound
  chunks,              \* what the last get_docs call returned
  invocations,         \* log of the calls made to the reasoning collaborator
  structured_result,   \* .content of the three stage results and of the
  legal_result,        \* final result, once bound
  negotiation_result,
  final_result,
  exc,                 \* str(e) of the exception in flight or caught
  failed_stage,        \* where that exception was raised
  sent,                \* what the user has been shown, in order
  k                    \* iterations done by the delivery loop

results == <<structured_result, legal_result, negotiation_result, final_result>>
vars == <<channel, pc, all_content, chunks, invocations, results, exc,
          failed_stage, sent, k>>

Init ==
  /\ channel = "none"
  /\ pc = "idle"
  /\ all_content = None
  /\ chunks = None
  /\ invocations = <<>>
  /\ structured_result = None
  /\ legal_result = None
  /\ negotiation_result = None
  /\ final_result = None
  /\ exc = None
  /\ failed_stage = "none"
  /\ sent = <<>>
  /\ k = 0

Message(kind, text) == [kind |-> kind, text |-> text]
\* one call to the reasoning collaborator and how it ended
Invocation(agent, instructions, input, outcome) ==
  [agent |-> agent, instructions |-> instructions, input |-> input,
   outcome |-> outcome]

\* how an awaited call that has completed is logged
Ended(outcome) == IF outcome.raised THEN "raised" ELSE "returned"

\* outcome of one transmission to the user: delivered, or the raised cause
SendOutcomes == {"ok"} \cup Causes

\* the exception e propagates: str(e) and where it was raised
Raise(cause, stage, handler_pc) ==
  /\ exc' = Some(cause)
  /\ failed_stage' = stage
  /\ pc' = handler_pc

\* await update.message.reply_text(text), continuing at next_pc, or raising
\* into handler_pc
reply_text(kind, text, outcome, next_pc, handler_pc) ==
  IF outcome = "ok"
  THEN /\ sent' = Append(sent, Message(kind, text))
       /\ pc' = next_pc
       /\ UNCHANGED <<exc, failed_stage>>
  ELSE /\ sent' = sent
       /\ Raise(outcome, "delivery", handler_pc)

\* ------------------------------------------------------------ instructions
\* text.split("\n")
Lines(text) ==
  LET nl == {i \in 1..Len(text) : SubSeq(text, i, i) = "\n"}
      count == Cardinality(nl)
      pos(n) == IF n = 0 THEN 0
                ELSE IF n = count + 1 THEN Len(text) + 1
                ELSE CHOOSE p \in nl : Cardinality({q \in nl : q <= p}) = n
  IN [n \in 1..(count + 1) |-> SubSeq(text, pos(n - 1) + 1, pos(n) - 1)]

\* the length of the line's leading run of spaces and tabs, from n on
RECURSIVE LeadingBlanks(_, _)
LeadingBlanks(line, n) ==
  IF n < Len(line) /\ SubSeq(line, n + 1, n + 1) \in {" ", "\t"}
  THEN LeadingBlanks(line, n + 1)
  ELSE n

IndentLen(line) == LeadingBlanks(line, 0)

\* the line holds nothing but spaces and tabs
IsBlank(line) == IndentLen(line) = Len(line)

\* the length of the longest common beginning of a and b, from n on
RECURSIVE CommonLen(_, _, _)
CommonLen(a, b, n) ==
  IF n < Len(a) /\ n < Len(b) /\ SubSeq(a, n + 1, n + 1) = SubSeq(b, n + 1, n + 1)
  THEN CommonLen(a, b, n + 1)
  ELSE n

\* the loop of dedent over the indents: margin shrinks to the longest
\* beginning it shares with each
RECURSIVE Margin(_, _)
Margin(indents, margin) ==
  IF indents = <<>> THEN margin
  ELSE Margin(Tail(indents),
              SubSeq(margin, 1, CommonLen(margin, Head(indents), 0)))

\* the leading whitespace of the lines that hold more than blanks
RECURSIVE Indents(_)
Indents(lines) ==
  IF lines = <<>> THEN <<>>
  ELSE IF IsBlank(Head(lines)) THEN Indents(Tail(lines))
  ELSE <<SubSeq(Head(lines), 1, IndentLen(Head(lines)))>>
         \o Indents(Tail(lines))

\* textwrap.dedent: lines of blanks become empty, and the longest leading
\* whitespace common to the other lines is removed from each of them
dedent(text) ==
  LET lines == Lines(text)
      indents == Indents(lines)
      margin == IF indents = <<>> THEN ""
                ELSE Margin(Tail(indents), Head(indents))
  IN Join("\n", [n \in 1..Len(lines) |->
                   IF IsBlank(lines[n]) THEN ""
                   ELSE SubSeq(lines[n], Len(margin) + 1, Len(lines[n]))])

\* the f-string of structure_agent's instructions, before dedent
structure_instructions ==
    "\n"
    \o "            Behave as a specialist in contract organization and document structuring.  \n"
    \o "            Carefully review the entire contract to assess its overall structure and logical flow.  \n"
    \o "            Identify missing, unclear, repetitive, or disordered sections and clauses.  \n"
    \o "            Return your findings in structured bullet points, highlighting issues clearly.  \n"
    \o "            If necessary, produce a clean, well-organized markdown outline suggesting an improved contract structure.  \n"
    \o "            Focus strictly on clarity, readability, and logical sequencing without providing legal advice.\n"
    \o "        "

\* the f-string of legal_agent's instructions, before dedent
legal_instructions(structured) ==
    "\n"
    \o "           Act as a legal framework analyst with a focus on identifying potential risks, ambiguities, and key legal principles within the contract.  \n"
    \o "            Carefully examine each section and clause to detect unclear, inconsistent, or risky language.  \n"
    \o "            For every observation or identified risk, quote the exact clause, sentence, or paragraph from the contract that supports it.  \n"
    \o "            Clearly indicate the section title, heading, or paragraph number for context.  \n"
    \o "            Present your findings in a structured, factual, and concise manner, ensuring each point is directly supported by the contract text.  \n"
    \o "            Avoid giving general legal advice; focus strictly on what is explicitly written in the contract\n"
    \o "\n"
    \o "            Structured Content:\n"
    \o "            "
    \o structured
    \o "\n"
    \o "        "

\* the f-string of negotiation_agent's instructions, before dedent
\* (the source's typographic apostrophe is written ')
negotiation_instructions(structured, legal) ==
    "\n"
    \o "            Act as a contract negotiation strategist focused on identifying negotiable clauses and potential imbalances between the parties.  \n"
    \o "            Carefully review the contract to locate provisions that may be unfair, overly restrictive, or commonly subject to negotiation.  \n"
    \o "            For every observation, quote the exact clause, sentence, or paragraph from the contract that supports your point.  \n"
    \o "            Explain briefly why each quoted clause may be negotiable or require adjustment.  \n"
    \o "            Propose a clear and concrete alternative wording or counter-proposal for each identified clause.  \n"
    \o "            Present your findings in a structured, practical, and concise format, grounded strictly in the contract's language.\n"
    \o "                  \n"
    \o "            Structured Content:\n"
    \o "            "
    \o structured
    \o "\n"
    \o "\n"
    \o "            Legal Analysis:\n"
    \o "            "
    \o legal
    \o "\n"
    \o "        "

\* the instructions of the Telegram team manager, before dedent
team_manager_instructions ==
    "\n"
    \o "            Merge structured outline, legal analysis, and negotiation points\n"
    \o "            into a single clean report. Preserve quoted clauses and remove duplicates.\n"
    \o "        "

\* the instructions of the WhatsApp team, before dedent
whatsapp_team_instructions ==
    "\n"
    \o "            Act as the primary consolidation and summarization agent responsible for merging outputs from all other agents.  \n"
    \o "            Combine their findings into a single, coherent, and well-structured final report.  \n"
    \o "            Preserve all quoted contract clauses exactly as they appear, without modification or omission.  \n"
    \o "            Remove duplicated, overlapping, or conflicting points while keeping the most clear and relevant version.  \n"
    \o "            Organize the report in a clean, logical structure that is easy to read and follow.  \n"
    \o "            Ensure that every observation remains traceable to a specific quoted clause from the contract.\n"
    \o "\n"
    \o "        "

\* the instructions of the Streamlit team manager, before dedent
streamlit_team_instructions ==
    "\n"
    \o "        Act as the primary consolidation and summarization agent responsible for merging outputs from all other agents.  \n"
    \o "        Combine their findings into a single, coherent, and well-structured final report.  \n"
    \o "        Preserve all quoted contract clauses exactly as they appear, without modification or omission.  \n"
    \o "        Remove duplicated, overlapping, or conflicting points while keeping the most clear and relevant version.  \n"
    \o "        Organize the report in a clean, logical structure that is easy to read and follow.  \n"
    \o "        Ensure that every observation remains traceable to a specific quoted clause from the contract.\n"
    \o "\n"
    \o "    "

StructureAgentInstructions == dedent(structure_instructions)
TeamManagerInstructions == dedent(team_manager_instructions)
WhatsappTeamInstructions == dedent(whatsapp_team_instructions)
StreamlitTeamInstructions == dedent(streamlit_team_instructions)

\* ------------------------------------------------------------ Telegram
\* handle_document up to the download: the file-name check and first reply
T_Start(is_pdf, outcome) ==
  /\ pc = "idle"
  /\ channel' = "telegram"
  /\ IF ~is_pdf
     THEN reply_text("prompt", "Please upload a PDF file.", outcome,
                     "done", "crashed")
     ELSE reply_text("status", "Downloading and reading PDF...", outcome,
                     "t_read", "crashed")
  /\ UNCHANGED <<all_content, chunks, invocations, results, k>>

\* download, reader.read and the join succeed; second status reply
T_Read(docs, outcome) ==
  /\ pc = "t_read"
  /\ all_content' = Some(Join("\n", docs))
  /\ reply_text("status", "Running pipeline analysis...", outcome,
                "structure", "crashed")
  /\ UNCHANGED <<channel, chunks, invocations, results, k>>

\* download or reader.read raises: outside the try, nothing catches it
T_ReadFails(cause) ==
  /\ pc = "t_read"
  /\ Raise(cause, "extraction", "crashed")
  /\ UNCHANGED <<channel, all_content, chunks, invocations, results, sent, k>>

\* what `await agent.arun(...)` does: returns a result with .content = text,
\* or raises an exception e with str(e) = text
AgentOutcomes(contents) ==
  {[raised |-> FALSE, text |-> c] : c \in contents}
  \cup {[raised |-> TRUE, text |-> c] : c \in Causes}

\* the structure stage with its failure swallowed: the pipeline goes on
\* with an empty structured content
StructureStageSwallowing(outcome) ==
  /\ pc = "structure"
  /\ invocations' =
       Append(invocations,
              Invocation(StructureAgent, StructureAgentInstructions,
                         all_content[1],
                         Ended(outcome)))
  /\ structured_result' = Some(IF outcome.raised THEN "" ELSE outcome.text)
  /\ pc' = "legal"
  /\ UNCHANGED <<channel, all_content, chunks, legal_result,
                 negotiation_result, final_result, exc, failed_stage,
                 sent, k>>

\* structure_agent.arun(pdf_text)
StructureStage(outcome) ==
  /\ pc = "structure"
  /\ invocations' =
       Append(invocations,
              Invocation(StructureAgent, StructureAgentInstructions,
                         all_content[1],
                         Ended(outcome)))
  /\ IF outcome.raised
     THEN /\ Raise(outcome.text, StructureAgent, "t_except")
          /\ UNCHANGED structured_result
     ELSE /\ structured_result' = Some(outcome.text)
          /\ pc' = "legal"
          /\ UNCHANGED <<exc, failed_stage>>
  /\ UNCHANGED <<channel, all_content, chunks, legal_result,
                 negotiation_result, final_result, sent, k>>

\* the legal stage dispatched without waiting for the structure stage
LegalStageUngated(outcome) ==
  /\ pc \in {"structure", "legal"}
  /\ LET waited == structured_result # None
         content == IF waited THEN structured_result[1] ELSE ""
         raised == outcome.raised \/ ~waited
     IN /\ invocations' =
             Append(invocations,
                    Invocation(LegalAgent,
                               dedent(legal_instructions(content)), content,
                               IF raised THEN "raised" ELSE "returned"))
        /\ IF raised
           THEN /\ Raise(outcome.text, LegalAgent, "t_except")
                /\ UNCHANGED legal_result
           ELSE /\ legal_result' = Some(outcome.text)
                /\ pc' = "negotiation"
                /\ UNCHANGED <<exc, failed_stage>>
  /\ UNCHANGED <<channel, all_content, chunks, structured_result,
                 negotiation_result, final_result, sent, k>>

\* legal_agent.arun(structured_result.content), the structured content
\* also embedded in the agent's instructions
LegalStage(outcome) ==
  /\ pc = "legal"
  /\ invocations' =
       Append(invocations,
              Invocation(LegalAgent,
                         dedent(legal_instructions(structured_result[1])),
                         structured_result[1], Ended(outcome)))
  /\ IF outcome.raised
     THEN /\ Raise(outcome.text, LegalAgent, "t_except")
          /\ UNCHANGED legal_result
     ELSE /\ legal_result' = Some(outcome.text)
          /\ pc' = "negotiation"
          /\ UNCHANGED <<exc, failed_stage>>
  /\ UNCHANGED <<channel, all_content, chunks, structured_result,
                 negotiation_result, final_result, sent, k>>

\* the negotiation stage retried once when its call raises
NegotiationStageRetrying(outcome) ==
  /\ pc = "negotiation"
  /\ invocations' =
       Append(invocations,
              Invocation(NegotiationAgent,
                         dedent(negotiation_instructions(
                                  structured_result[1], legal_result[1])),
                         structured_result[1] \o "\n" \o legal_result[1],
                         Ended(outcome)))
  /\ IF outcome.raised
     THEN /\ IF \E n \in 1..Len(invocations) :
                  invocations[n].agent = NegotiationAgent
             THEN Raise(outcome.text, NegotiationAgent, "t_except")
             ELSE UNCHANGED <<pc, exc, failed_stage>>
          /\ UNCHANGED negotiation_result
     ELSE /\ negotiation_result' = Some(outcome.text)
          /\ pc' = "consolidation"
          /\ UNCHANGED <<exc, failed_stage>>
  /\ UNCHANGED <<channel, all_content, chunks, structured_result,
                 legal_result, final_result, sent, k>>

\* negotiation_agent.arun(structured + "\n" + legal), both contents also
\* embedded in the agent's instructions
NegotiationStage(outcome) ==
  /\ pc = "negotiation"
  /\ invocations' =
       Append(invocations,
              Invocation(NegotiationAgent,
                         dedent(negotiation_instructions(
                                  structured_result[1], legal_result[1])),
                         structured_result[1] \o "\n" \o legal_result[1],
                         Ended(outcome)))
  /\ IF outcome.raised
     THEN /\ Raise(outcome.text, NegotiationAgent, "t_except")
          /\ UNCHANGED negotiation_result
     ELSE /\ negotiation_result' = Some(outcome.text)
          /\ pc' = "consolidation"
          /\ UNCHANGED <<exc, failed_stage>>
  /\ UNCHANGED <<channel, all_content, chunks, structured_result,
                 legal_result, final_result, sent, k>>

\* the join with the legal analysis left out
combined_text_without_legal(structured, legal, negotiation) ==
  Join("\n\n", <<structured, negotiation>>)

\* "\n\n".join([structured, legal, negotiation])
combined_text(structured, legal, negotiation) ==
  Join("\n\n", <<structured, legal, negotiation>>)

\* the f-string handed to team_manager.arun
MergePrompt(structured, legal, negotiation) ==
  "Merge the following outputs:\n"
    \o combined_text(structured, legal, negotiation)

\* the reports the team manager may return for these stage outputs: the
\* candidate content as it is, a rewording, nothing, or a long report
Reports(structured, legal, negotiation) ==
  {combined_text(structured, legal, negotiation)}
  \cup ShortReports \cup LongReports

\* range(0, len(result.content), 4000)
segment_offsets(content) == Range0(Len(content), segment_size)

\* the slice taken one character too long
segment_overlapping(content, i) == Slice(content, i, i + segment_size + 1)

\* result.content[i:i+4000]
segment(content, i) == Slice(content, i, i + segment_size)

\* team_manager.arun(...) and the return to handle_document, up to the
\* first transmission of the loop (none for an empty report)
Consolidate(outcome) ==
  /\ pc = "consolidation"
  /\ invocations' =
       Append(invocations,
              Invocation(TeamManager, TeamManagerInstructions,
                         MergePrompt(structured_result[1], legal_result[1],
                                     negotiation_result[1]),
                         Ended(outcome)))
  /\ IF outcome.raised
     THEN /\ Raise(outcome.text, TeamManager, "t_except")
          /\ UNCHANGED final_result
     ELSE /\ final_result' = Some(outcome.text)
          /\ pc' = IF segment_offsets(outcome.text) = <<>>
                   THEN "done" ELSE "t_send"
          /\ UNCHANGED <<exc, failed_stage>>
  /\ UNCHANGED <<channel, all_content, chunks, structured_result,
                 legal_result, negotiation_result, sent, k>>

\* the consolidation pass, with whatever the team manager answers
Consolidation ==
  /\ pc = "consolidation"
  /\ \E outcome \in AgentOutcomes(Reports(structured_result[1],
                                          legal_result[1],
                                          negotiation_result[1])) :
       Consolidate(outcome)

\* one iteration of the delivery loop of handle_document
T_SendSegment(outcome) ==
  /\ pc = "t_send"
  /\ LET offsets == segment_offsets(final_result[1])
         i == offsets[k + 1]
     IN /\ reply_text("segment", segment(final_result[1], i), outcome,
                      IF k + 1 = Len(offsets) THEN "done" ELSE "t_send",
                      "t_except")
        /\ k' = IF outcome = "ok" THEN k + 1 ELSE k
  /\ UNCHANGED <<channel, all_content, chunks, invocations, results>>

\* the message without the exception's text
TelegramFailureTextGeneric(e) == "Failed to analyze pdf"

\* f"Failed to analyze pdf: {e}"
TelegramFailureText(e) == "Failed to analyze pdf: " \o e

\* the except clause of handle_document
T_Except(outcome) ==
  /\ pc = "t_except"
  /\ reply_text("failure", TelegramFailureText(exc[1]), outcome,
                "done", "crashed")
  /\ UNCHANGED <<channel, all_content, chunks, invocations, results, k>>

Telegram ==
  \/ \E is_pdf \in BOOLEAN, outcome \in SendOutcomes : T_Start(is_pdf, outcome)
  \/ \E docs \in PdfPages, outcome \in SendOutcomes : T_Read(docs, outcome)
  \/ \E cause \in Causes : T_ReadFails(cause)
  \/ \E outcome \in AgentOutcomes(StructureOutputs) : StructureStage(outcome)
  \/ \E outcome \in AgentOutcomes(LegalOutputs) : LegalStage(outcome)
  \/ \E outcome \in AgentOutcomes(NegotiationOutputs) :
       NegotiationStage(outcome)
  \/ Consolidation
  \/ \E outcome \in SendOutcomes : T_SendSegment(outcome)
  \/ \E outcome \in SendOutcomes : T_Except(outcome)

\* ------------------------------------------------------------ WhatsApp
\* outcome of reader.read: the pages, or an exception
ReadOutcomes ==
  {[raised |-> FALSE, docs |-> d] : d \in PdfPages}
  \cup {[raised |-> TRUE, text |-> c] : c \in Causes}

PdfName == "contract.pdf"

Chunk(content, source) ==
  [content |-> content, meta_data |-> [source |-> source]]

\* get_docs of create_agents: the list comprehension over range
create_agents_get_docs(pdf_content, pdf_name) ==
  LET offsets == Range0(Len(pdf_content), chunk_size)
  IN [n \in 1..Len(offsets) |->
        Chunk(Slice(pdf_content, offsets[n], offsets[n] + chunk_size),
              pdf_name)]

\* f"Failed to analyze contract: {e}"
WhatsappFailureText(e) == "Failed to analyze contract: " \o e

\* the response {"reply": text}
Return(kind, text) ==
  /\ sent' = Append(sent, Message(kind, text))
  /\ pc' = "done"

\* receive_message up to `await team.arun(...)`
W_Receive(has_pdf, read) ==
  /\ pc = "idle"
  /\ channel' = "whatsapp"
  /\ IF ~has_pdf
     THEN /\ Return("prompt", "Please send a PDF contract for analysis.")
          /\ UNCHANGED <<all_content, invocations, exc, failed_stage>>
     ELSE IF read.raised
     THEN /\ exc' = Some(read.text)
          /\ failed_stage' = "extraction"
          /\ Return("failure", WhatsappFailureText(read.text))
          /\ UNCHANGED <<all_content, invocations>>
     ELSE /\ all_content' = Some(Join("\n", read.docs))
          /\ UNCHANGED <<exc, failed_stage>>
          /\ IF Strip(Join("\n", read.docs)) = ""
             THEN /\ Return("empty_doc", "Could not extract text from PDF!")
                  /\ UNCHANGED invocations
             ELSE /\ invocations' =
                       Append(invocations,
                              Invocation(TeamManager, WhatsappTeamInstructions,
                                "Analyze this contract and produce a consolidated report.",
                                "pending"))
                  /\ pc' = "w_team"
                  /\ sent' = sent
  /\ UNCHANGED <<chunks, results, k>>

\* a member agent calls its get_docs tool while the team runs
W_GetDocs ==
  /\ pc = "w_team"
  /\ chunks' = Some(create_agents_get_docs(all_content[1], PdfName))
  /\ UNCHANGED <<channel, pc, all_content, invocations, results, exc,
                 failed_stage, sent, k>>

\* [result.content[i:i + 4000] for i in range(0, len(result.content), 4000)]
response_chunks(content) ==
  LET offsets == segment_offsets(content)
  IN [n \in 1..Len(offsets) |-> segment(content, offsets[n])]

\* team.arun returns or raises; the rest of receive_message
W_TeamReturn(outcome) ==
  /\ pc = "w_team"
  /\ invocations' =
       [invocations EXCEPT ![Len(invocations)].outcome = Ended(outcome)]
  /\ IF outcome.raised
     THEN /\ exc' = Some(outcome.text)
          /\ failed_stage' = TeamManager
          /\ Return("failure", WhatsappFailureText(outcome.text))
          /\ UNCHANGED final_result
     ELSE /\ final_result' = Some(outcome.text)
          /\ LET reply == response_chunks(outcome.text)
             IN sent' = sent \o [n \in 1..Len(reply) |->
                                   Message("segment", reply[n])]
          /\ pc' = "done"
          /\ UNCHANGED <<exc, failed_stage>>
  /\ UNCHANGED <<channel, all_content, chunks, structured_result,
                 legal_result, negotiation_result, k>>

TeamReports == ShortReports \cup LongReports

Whatsapp ==
  \/ \E has_pdf \in BOOLEAN, read \in ReadOutcomes : W_Receive(has_pdf, read)
  \/ W_GetDocs
  \/ \E outcome \in AgentOutcomes(TeamReports) : W_TeamReturn(outcome)

\* ------------------------------------------------------------ Streamlit
StreamlitTeamManager == "Team manager"

\* get_docs stopping at the last full chunk
get_docs_full_chunks_only(content, source) ==
  [n \in 1..(Len(content) \div chunk_size) |->
     Chunk(Slice(content, (n - 1) * chunk_size, n * chunk_size), source)]

\* get_docs of the Streamlit script: the loop appending to chunks
get_docs(content, source) ==
  LET offsets == Range0(Len(content), chunk_size)
  IN [n \in 1..Len(offsets) |->
        Chunk(Slice(content, offsets[n], offsets[n] + chunk_size), source)]

\* a script run with an uploaded contract: read, join, emptiness check
S_Load(read) ==
  /\ pc = "idle"
  /\ channel' = "streamlit"
  /\ IF read.raised
     THEN /\ Raise(read.text, "extraction", "crashed")
          /\ UNCHANGED <<all_content, sent>>
     ELSE /\ all_content' = Some(Join("\n", read.docs))
          /\ UNCHANGED <<exc, failed_stage>>
          /\ IF Strip(Join("\n", read.docs)) = ""
             THEN /\ sent' = Append(sent,
                       Message("empty_doc",
                               "There is no content in the contract!"))
                  /\ pc' = "done"
             ELSE /\ sent' = Append(sent,
                       Message("status", "Contract loaded successfully"))
                  /\ pc' = "s_loaded"
  /\ UNCHANGED <<chunks, invocations, results, k>>

\* the button is pressed: asyncio.run(analyze_contract()) starts the team
S_Analyze ==
  /\ pc = "s_loaded"
  /\ invocations' =
       Append(invocations,
              Invocation(StreamlitTeamManager, StreamlitTeamInstructions,
                "Analyze this contract using all agents and produce a consolidated and structured report.",
                "pending"))
  /\ pc' = "s_team"
  /\ UNCHANGED <<channel, all_content, chunks, results, exc, failed_stage,
                 sent, k>>

\* a member agent calls the get_docs tool while the team runs
S_GetDocs ==
  /\ pc = "s_team"
  /\ chunks' = Some(get_docs(all_content[1], PdfName))
  /\ UNCHANGED <<channel, pc, all_content, invocations, results, exc,
                 failed_stage, sent, k>>

\* the team run returns and the report is shown, or it raises (uncaught)
S_TeamReturn(outcome) ==
  /\ pc = "s_team"
  /\ invocations' =
       [invocations EXCEPT ![Len(invocations)].outcome = Ended(outcome)]
  /\ IF outcome.raised
     THEN /\ Raise(outcome.text, StreamlitTeamManager, "crashed")
          /\ UNCHANGED <<final_result, sent>>
     ELSE /\ final_result' = Some(outcome.text)
          /\ sent' = Append(sent, Message("report", outcome.text))
          /\ pc' = "done"
          /\ UNCHANGED <<exc, failed_stage>>
  /\ UNCHANGED <<channel, all_content, chunks, structured_result,
                 legal_result, negotiation_result, k>>

Streamlit ==
  \/ \E read \in ReadOutcomes : S_Load(read)
  \/ S_Analyze
  \/ S_GetDocs
  \/ \E outcome \in AgentOutcomes(TeamReports) : S_TeamReturn(outcome)

\* ------------------------------------------------------------ system
Next == Telegram \/ Whatsapp \/ Streamlit
Spec == Init /\ [][Next]_vars


\* ------------------------------------------------------------ properties
CeilDiv(a, b) == IF a % b = 0 THEN a \div b ELSE a \div b + 1

\* the texts of a list, one after the other
RECURSIVE Concat(_)
Concat(texts) ==
  IF texts = <<>> THEN "" ELSE Head(texts) \o Concat(Tail(texts))

\* sub occurs in text
Contains(text, sub) ==
  \E i \in 1..(Len(text) - Len(sub) + 1) :
    SubSeq(text, i, i + Len(sub) - 1) = sub

Invoked(agent) ==
  \E n \in 1..Len(invocations) : invocations[n].agent = agent

EndedAs(agent, outcome) ==
  \E n \in 1..Len(invocations) :
    invocations[n].agent = agent /\ invocations[n].outcome = outcome

TimesInvoked(agent) ==
  Cardinality({n \in 1..Len(invocations) : invocations[n].agent = agent})

\* the texts of the messages of these kinds shown so far, in order
RECURSIVE TextsOf(_, _)
TextsOf(kinds, msgs) ==
  IF msgs = <<>> THEN <<>>
  ELSE IF Head(msgs).kind \in kinds
       THEN <<Head(msgs).text>> \o TextsOf(kinds, Tail(msgs))
       ELSE TextsOf(kinds, Tail(msgs))

\* C1: whenever get_docs has been called, its chunks concatenated in order
\* are the document text, there are ceil(len/chunk_size) of them, and each
\* holds between 1 and chunk_size characters.
ChunkCoverage ==
  chunks # None =>
    LET cs == chunks[1]
        D == all_content[1]
    IN /\ Concat([n \in 1..Len(cs) |-> cs[n].content]) = D
       /\ Len(cs) = CeilDiv(Len(D), chunk_size)
       /\ \A n \in 1..Len(cs) : Len(cs[n].content) \in 1..chunk_size

\* get_docs returned three chunks, the last one a shorter remainder
ChunkCoverageWitness ==
  /\ chunks # None
  /\ Len(chunks[1]) = 3
  /\ Len(chunks[1][3].content) < chunk_size

\* C2: in every channel, once the extracted text is empty or whitespace
\* only, no call is made to the reasoning collaborator, no stage result is
\* produced, and a handler that has finished has reported an empty document.
EmptyInputShortCircuit ==
  (all_content # None /\ Strip(all_content[1]) = "") =>
    /\ invocations = <<>>
    /\ structured_result = None /\ legal_result = None
    /\ negotiation_result = None /\ final_result = None
    /\ pc = "done" => TextsOf({"empty_doc"}, sent) # <<>>

\* C3: the legal (risk) stage is dispatched only once the structure stage
\* has returned its result, and the negotiation stage only once both the
\* structure and the legal stage have returned theirs.
DependencyOrdering ==
  [][\A n \in (Len(invocations) + 1)..Len(invocations') :
       /\ invocations'[n].agent = LegalAgent =>
            /\ structured_result # None
            /\ EndedAs(StructureAgent, "returned")
       /\ invocations'[n].agent = NegotiationAgent =>
            /\ structured_result # None /\ legal_result # None
            /\ EndedAs(StructureAgent, "returned")
            /\ EndedAs(LegalAgent, "returned")]_vars

\* the negotiation stage has been dispatched
DependencyOrderingWitness ==
  /\ Invoked(NegotiationAgent)
  /\ Invoked(LegalAgent)

\* the run has failed: no report, nothing of a report shown, and the
\* handler is in or past its except clause
RunFailed ==
  /\ final_result = None
  /\ TextsOf({"segment"}, sent) = <<>>
  /\ exc # None
  /\ pc \in {"t_except", "done", "crashed"}
  /\ pc = "done" => TextsOf({"failure"}, sent) # <<>>

\* C4: once the structure stage's call has raised, the legal stage, the
\* negotiation stage and the team manager are never invoked and the run
\* has failed; once the legal stage's call has raised, the same holds of
\* the negotiation stage and the team manager.
FailFast ==
  channel = "telegram" =>
    /\ EndedAs(StructureAgent, "raised") =>
         /\ ~Invoked(LegalAgent)
         /\ ~Invoked(NegotiationAgent)
         /\ ~Invoked(TeamManager)
         /\ RunFailed
    /\ EndedAs(LegalAgent, "raised") =>
         /\ ~Invoked(NegotiationAgent)
         /\ ~Invoked(TeamManager)
         /\ RunFailed

\* the structure stage raised and the user has been told of the failure
FailFastWitness ==
  /\ EndedAs(StructureAgent, "raised")
  /\ pc = "done"
  /\ TextsOf({"failure"}, sent) # <<>>

\* C5: each of the three stages is invoked at most once in a run.
AtMostOnce ==
  \A agent \in {StructureAgent, LegalAgent, NegotiationAgent} :
    TimesInvoked(agent) <= 1

\* all three stages were invoked and the last one raised
AtMostOnceWitness ==
  /\ Invoked(StructureAgent) /\ Invoked(LegalAgent)
  /\ EndedAs(NegotiationAgent, "raised")

\* a PDF with text in it went through a chat channel's handler, which has
\* returned
DocumentHandled ==
  /\ channel \in {"telegram", "whatsapp"}
  /\ all_content # None
  /\ Strip(all_content[1]) # ""
  /\ pc = "done"

\* C6: when the handling of a document has ended, the user has received
\* either the whole report (at least one segment, the segments together
\* being the report) and no failure message, or exactly one failure message
\* and nothing of a report.
ReportOrFailure ==
  DocumentHandled =>
    LET segments == TextsOf({"segment"}, sent)
        failures == TextsOf({"failure", "empty_doc"}, sent)
    IN \/ /\ segments # <<>>
          /\ final_result # None
          /\ Concat(segments) = final_result[1]
          /\ failures = <<>>
       \/ /\ Len(failures) = 1
          /\ segments = <<>>

\* C7 as stated: every message reporting the failure of a stage names that
\* stage and carries the cause.
FailureAttribution ==
  \A n \in 1..Len(sent) :
    (sent[n].kind = "failure"
       /\ failed_stage \in {StructureAgent, LegalAgent, NegotiationAgent,
                            TeamManager}) =>
      /\ Contains(sent[n].text, failed_stage)
      /\ Contains(sent[n].text, exc[1])

\* C7, amended: every failure message sent by an except clause is the
\* channel's fixed prefix followed by the text of the caught exception.
FailureCarriesCause ==
  \A n \in 1..Len(sent) :
    sent[n].kind = "failure" =>
      /\ exc # None
      /\ sent[n].text \in {"Failed to analyze pdf: " \o exc[1],
                           "Failed to analyze contract: " \o exc[1]}

\* the legal stage raised and the Telegram user got the failure message
FailureCarriesCauseWitness ==
  /\ channel = "telegram"
  /\ failed_stage = LegalAgent
  /\ TextsOf({"failure"}, sent) # <<>>

\* s is the beginning of t
IsPrefix(s, t) == Len(s) <= Len(t) /\ SubSeq(t, 1, Len(s)) = s

QuoteMarks(text) == {i \in 1..Len(text) : SubSeq(text, i, i) = "\""}

\* the quoted excerpts of text, quotation marks included
Quotes(text) ==
  LET marks == QuoteMarks(text)
      opens == {p \in marks :
                  Cardinality({q \in marks : q < p}) % 2 = 0}
      closes(p) == {q \in marks : q > p}
  IN {SubSeq(text, p, CHOOSE q \in closes(p) :
                        \A r \in closes(p) : q <= r) :
        p \in {o \in opens : closes(o) # {}}}

\* C9: every quoted excerpt of the three stage results is in the report
\* the consolidation pass returned for a document with text in it.
QuoteFidelity ==
  (channel = "telegram" /\ final_result # None
     /\ Strip(all_content[1]) # "") =>
    \A q \in Quotes(structured_result[1]) \cup Quotes(legal_result[1])
               \cup Quotes(negotiation_result[1]) :
      Contains(final_result[1], q)

\* C10: the team manager is invoked at most once, only after the three
\* stages have returned their results, with the prompt header followed by
\* the three contents in pipeline order, each whole, joined by blank lines;
\* a run that produced a report invoked it exactly once.
ConsolidationOnce ==
  channel = "telegram" =>
    /\ TimesInvoked(TeamManager) <= 1
    /\ final_result # None => TimesInvoked(TeamManager) = 1
    /\ \A n \in 1..Len(invocations) :
         invocations[n].agent = TeamManager =>
           /\ n = 4
           /\ invocations[1].agent = StructureAgent
           /\ invocations[2].agent = LegalAgent
           /\ invocations[3].agent = NegotiationAgent
           /\ \A m \in 1..3 : invocations[m].outcome = "returned"
           /\ structured_result # None /\ legal_result # None
           /\ negotiation_result # None
           /\ invocations[n].input =
                "Merge the following outputs:\n" \o structured_result[1]
                  \o "\n\n" \o legal_result[1]
                  \o "\n\n" \o negotiation_result[1]

\* the team manager returned a report after the three stages
ConsolidationOnceWitness ==
  /\ channel = "telegram"
  /\ final_result # None
  /\ EndedAs(TeamManager, "returned")

\* C11: what the legal stage is given, in its instructions and in its
\* message, holds the structure stage's content as it was returned, and
\* what the negotiation stage is given holds the structure stage's and the
\* legal stage's contents as they were returned.
ContextPropagation ==
  \A n \in 1..Len(invocations) :
    /\ invocations[n].agent = LegalAgent =>
         /\ invocations[n].input = structured_result[1]
         /\ Contains(invocations[n].instructions, structured_result[1])
    /\ invocations[n].agent = NegotiationAgent =>
         /\ Contains(invocations[n].input, structured_result[1])
         /\ Contains(invocations[n].input, legal_result[1])
         /\ Contains(invocations[n].instructions, structured_result[1])
         /\ Contains(invocations[n].instructions, legal_result[1])

====
